---- MODULE Spec2Model ----
(***************************************************************************)
(* BookSwap REST backend: the accounts routes (userRoutes.js), the         *)
(* listings routes (bookRoutes.js), the persistence gateway (connect.js,   *)
(* carried at the end of userRoutes.js) and the account rate limiter.      *)
(*                                                                         *)
(* Every handler is split at its awaits on the database, the image host    *)
(* or bcrypt: one action is one database operation together with the       *)
(* synchronous continuation that follows it, so requests interleave        *)
(* exactly where the event loop lets them.                                 *)
(*                                                                         *)
(* Each component has its own specification over the shared variables:     *)
(*   SpecLogin    register, login with lockout while the clock runs        *)
(*   SpecSession  register, login, GET /me, DELETE /me, token expiry       *)
(*   SpecUsers    register, PUT /me, DELETE /me on two identities          *)
(*   SpecBooks    create, update, delete of listings and their images      *)
(*   SpecLikes    create, update, like of listings                         *)
(*   SpecConnect  connectToServer, getDb, closeConnection                  *)
(*   SpecLimiter  authLimiter ahead of the account routes                  *)
(* The handlers assume a working database handle (getDb does not throw and *)
(* no query rejects); SpecConnect covers the handle itself.                *)
(***************************************************************************)
EXTENDS Integers, Sequences, FiniteSets, Bags, TLC

VARIABLES
    users,              \* the users collection: _id -> document
    nextId,             \* the next ObjectId the users collection hands out
    now,                \* wall clock, in minutes
    tokens,             \* session tokens signed so far
    reqs,               \* account requests in flight: a bag of handler states
    last,               \* history: the watched request answered last, with its response
    watch,              \* history: the operations whose answers are recorded in last
    hist,               \* history: per account, the run of wrong-password answers
    raced,              \* history: a uniqueness check ran inside another's check-to-write span
    books,              \* the books collection: a set of documents
    nextBook,           \* the next ObjectId the books collection hands out
    remote,             \* the image host: the public_ids it stores
    hits,               \* authLimiter's store: the client's hit count in the window
    sent,               \* history: the requests the client sent in the window
    database,           \* connect.js: let database
    connectionPromise,  \* connect.js: let connectionPromise
    promises,           \* the promises connectToServer created, one per client.connect()
    callers,            \* callers of connectToServer and what they received
    closes,             \* history: the closeConnection calls that have completed
    closing             \* closeConnection calls awaiting client.close()

userVars == <<users, nextId, now, tokens, hist, raced>>

bookVars == <<books, nextBook, remote>>

limVars == <<hits, sent>>

connVars == <<database, connectionPromise, promises, callers, closes, closing>>

vars == <<userVars, reqs, last, watch, bookVars, limVars, connVars>>

(***************************************************************************)
(* Bounds of the model                                                     *)
(***************************************************************************)
MaxIds == 2
MaxInFlight == 2
MaxTime == 15

(***************************************************************************)
(* Program constants                                                       *)
(***************************************************************************)
MAX_LOGIN_ATTEMPTS == 5
LOGIN_WINDOW_MINUTES == 15

\* The clock advances a third of the lockout window at a time.
TickStep == LOGIN_WINDOW_MINUTES \div 3

Min(S) == CHOOSE x \in S : \A y \in S : x <= y

(***************************************************************************)
(* Tokens: jwt.sign({id}, JWT_SECRET, {expiresIn}) and jwt.verify          *)
(***************************************************************************)
NoToken == [id |-> 0, sig |-> "none", expired |-> FALSE]

generateToken(userId) == [id |-> userId, sig |-> "ok", expired |-> FALSE]

jwtVerifyIgnoringExp(tok) == tok.sig = "ok"

\* jwt.verify throws on a bad signature and on a token past its exp.
jwtVerify(tok) == tok.sig = "ok" /\ ~tok.expired

\* A token signed with another secret, naming user i.
Forged(i) == [id |-> i, sig |-> "bad", expired |-> FALSE]

(***************************************************************************)
(* bcrypt.hash / bcrypt.compare                                            *)
(***************************************************************************)
bcryptHash(password) == <<"bcrypt", password>>

bcryptCompare(password, hashed) == hashed = bcryptHash(password)

(***************************************************************************)
(* express-validator: body('email').trim().isEmail().normalizeEmail()      *)
(* lower-cases the address; loginSchema and updateSchema do not normalize. *)
(***************************************************************************)
normalizeEmail(email) ==
    CASE email = "A@x.io" -> "a@x.io"
      [] OTHER -> email

\* registerSchema: username 3..30 characters of [a-zA-Z0-9_]
ValidUsername(username) == username # "ab"

(***************************************************************************)
(* Requests                                                                *)
(***************************************************************************)
IdleReq ==
    [op |-> "idle", pc |-> "idle", tok |-> NoToken,
     username |-> "", email |-> "", password |-> "",
     uid |-> 0, hash |-> <<>>, uEmail |-> "", uUsername |-> "",
     setEmail |-> FALSE, setUsername |-> FALSE,
     status |-> 0, code |-> "", dataId |-> 0, token |-> NoToken,
     seen |-> "", after |-> <<>>,
     sawDup |-> FALSE, alive |-> FALSE, checked |-> FALSE, wrote |-> FALSE]

\* A new request is taken while fewer than MaxInFlight are being handled.
Free == BagCardinality(reqs) < MaxInFlight

One(q) == SetToBag({q})

InFlight == BagToSet(reqs)

Respond(q, status, code) == [q EXCEPT !.pc = "done", !.status = status, !.code = code]

\* The handler in state p goes on to its next await, in state q.
Proceed(p, q) ==
    /\ reqs' = (IF p = IdleReq THEN reqs ELSE reqs (-) One(p)) (+) One(q)
    /\ last' = last

\* What is kept of an answered request: the response and the history flags.
\* The token presented is kept with the answers authenticateUser decides
\* (every 401 NOT_AUTHORIZED, and GET /me, which has no step of its own).
Answered(q) ==
    LET auth == q.code = "NOT_AUTHORIZED" \/ q.op = "getMe" IN
    [q EXCEPT !.username = "", !.email = "", !.hash = <<>>, !.uid = 0,
              !.uEmail = "", !.uUsername = "",
              !.setEmail = FALSE, !.setUsername = FALSE, !.checked = FALSE,
              !.tok = IF auth THEN @ ELSE NoToken,
              !.alive = IF auth THEN @ ELSE FALSE]

\* The handler in state p sends its response q.
Answer(p, q) ==
    /\ reqs' = (IF p = IdleReq THEN reqs ELSE reqs (-) One(p))
    /\ last' = IF q.op \in watch THEN Answered(q) ELSE last

Step(p, q) == IF q.pc = "done" THEN Answer(p, q) ELSE Proceed(p, q)

(***************************************************************************)
(* authenticateUser                                                        *)
(***************************************************************************)
\* The _id of the user the token resolves to, 0 when the middleware answers 401.
authenticateUser(tok) ==
    IF tok = NoToken THEN 0
    ELSE IF ~jwtVerify(tok) THEN 0
    ELSE IF tok.id \in DOMAIN users /\ users[tok.id].isActive THEN tok.id
    ELSE 0

\* History: the record of the user a token names exists and is active.
Alive(tok) == tok.id \in DOMAIN users /\ users[tok.id].isActive

(***************************************************************************)
(* POST / (register)                                                       *)
(***************************************************************************)
FindByEmailOnly(username, email) ==
    {i \in DOMAIN users : users[i].email = email}

\* findOne({$or: [{username}, {email}]})
FindByUsernameOrEmail(username, email) ==
    {i \in DOMAIN users : users[i].username = username \/ users[i].email = email}

\* History: some request sits between its uniqueness check and its write.
RaceSeen(p) ==
    \/ raced
    \/ \E o \in BagToSet(IF p = IdleReq THEN reqs ELSE reqs (-) One(p)) : o.checked

\* History: a user registered under this very username or email, unchanged since.
SharesRegistered(username, email) ==
    \E i \in DOMAIN users :
        users[i].regAs # <<>> /\ (users[i].regAs[1] = username \/ users[i].regAs[2] = email)

RegisterInvalid(username, email, password) ==
    /\ Free
    /\ ~ValidUsername(username)
    /\ Answer(IdleReq, Respond([IdleReq EXCEPT !.op = "register", !.username = username,
                                         !.email = email, !.password = password],
                         400, "VALIDATION_ERROR"))
    /\ UNCHANGED <<users, nextId, now, tokens, hist, raced, watch, bookVars, limVars, connVars>>

RegisterCheck(username, email, password) ==
    /\ Free
    /\ ValidUsername(username)
    /\ LET q == [IdleReq EXCEPT !.op = "register", !.username = username,
                                !.email = email, !.password = password,
                                !.sawDup = SharesRegistered(username, email)]
           existing == FindByUsernameOrEmail(username, normalizeEmail(email))
       IN  /\ Step(IdleReq, IF existing # {} THEN Respond(q, 409, "USER_EXISTS")
                      ELSE [q EXCEPT !.pc = "insert", !.checked = TRUE])
           /\ raced' = RaceSeen(IdleReq)
    /\ UNCHANGED <<users, nextId, now, tokens, hist, watch, bookVars, limVars, connVars>>

NewUser(id, username, email, password, rawEmail) ==
    [_id |-> id, username |-> username, email |-> email,
     password |-> bcryptHash(password),
     loginAttempts |-> 0, lastFailedLogin |-> <<>>, isActive |-> TRUE,
     regAs |-> <<username, rawEmail>>]

\* The ObjectId insertOne gives the new document: never one used before.
InsertedId == nextId

RegisterInsert(q) ==
    /\ q \in InFlight
    /\ q.op = "register" /\ q.pc = "insert"
    /\ nextId <= MaxIds
    /\ LET id == InsertedId
           tok == generateToken(id)
       IN  /\ users' = [i \in DOMAIN users \cup {id} |->
                          IF i = id
                          THEN NewUser(id, q.username, normalizeEmail(q.email),
                                       q.password, q.email)
                          ELSE users[i]]
           /\ nextId' = nextId + 1
           /\ hist' = [i \in DOMAIN hist \cup {id} |->
                          IF i = id THEN [fails |-> 0, last |-> <<>>, run |-> 0]
                          ELSE hist[i]]
           /\ tokens' = tokens \cup {tok}
           /\ Answer(q, [Respond(q, 201, "") EXCEPT !.dataId = id, !.token = tok,
                                                    !.uid = id, !.wrote = TRUE])
    /\ UNCHANGED <<now, raced, watch, bookVars, limVars, connVars>>

(***************************************************************************)
(* POST /login                                                             *)
(***************************************************************************)
\* findOne({email}): the first match in insertion order.
FindByEmail(email) == {i \in DOMAIN users : users[i].email = email}

minutesSinceLastAttempt(user, t) ==
    t - (IF user.lastFailedLogin = <<>> THEN t ELSE user.lastFailedLogin[1])

LockedOffByOne(user, t) ==
    /\ user.loginAttempts > MAX_LOGIN_ATTEMPTS
    /\ minutesSinceLastAttempt(user, t) < LOGIN_WINDOW_MINUTES

Locked(user, t) ==
    /\ user.loginAttempts >= MAX_LOGIN_ATTEMPTS
    /\ minutesSinceLastAttempt(user, t) < LOGIN_WINDOW_MINUTES

\* History: how the account's run of wrong-password answers stands at time t:
\* "locked" after five or more with the last one less than the window ago,
\* "expired" after five or more with the last one a window or more ago.
RunAt(h, t) ==
    IF h.fails < MAX_LOGIN_ATTEMPTS THEN "open"
    ELSE IF t - h.last[1] < LOGIN_WINDOW_MINUTES THEN "locked"
    ELSE "expired"

LoginFind(email, password) ==
    /\ Free
    /\ LET q == [IdleReq EXCEPT !.op = "login", !.email = email, !.password = password]
           found == FindByEmail(email)
       IN  Step(IdleReq,
              IF found = {} THEN Respond(q, 401, "INVALID_CREDENTIALS")
              ELSE LET id == Min(found)
                       seen == [q EXCEPT !.uid = id,
                                         !.hash = users[id].password,
                                         !.seen = RunAt(hist[id], now)]
                   IN  IF Locked(users[id], now)
                       THEN Respond(seen, 429, "ACCOUNT_LOCKED")
                       ELSE [seen EXCEPT !.pc = "compare"])
    /\ UNCHANGED <<users, nextId, now, tokens, hist, raced, watch, bookVars, limVars, connVars>>

\* History: a wrong-password answer at time t continues the account's run of
\* failures: there is an earlier one, less than the window before t, with no
\* successful login since.
RunGoesOn(h, t) ==
    /\ h.run > 0
    /\ t - h.last[1] < LOGIN_WINDOW_MINUTES

\* updateOne({_id}, {$inc: {loginAttempts: 1}, $set: {lastFailedLogin: new Date()}})
FailedLoginUpdate(id) ==
    IF id \in DOMAIN users
    THEN [users EXCEPT ![id].loginAttempts = @ + 1, ![id].lastFailedLogin = <<now>>]
    ELSE users

\* updateOne({_id}, {$set: {loginAttempts: 0, lastLogin: new Date()}})
SuccessfulLoginUpdate(id) ==
    IF id \in DOMAIN users
    THEN [users EXCEPT ![id].loginAttempts = 0]
    ELSE users

\* History: the account's failure counter as a write leaves it.
AttemptsOf(us, id) == IF id \in DOMAIN us THEN <<us[id].loginAttempts>> ELSE <<>>

LoginFinish(q) ==
    /\ q \in InFlight
    /\ q.op = "login" /\ q.pc = "compare"
    /\ IF ~bcryptCompare(q.password, q.hash)
       THEN /\ users' = FailedLoginUpdate(q.uid)
            /\ hist' = [hist EXCEPT ![q.uid] =
                            [fails |-> @.fails + 1, last |-> <<now>>,
                             run |-> IF RunGoesOn(@, now) THEN @.run + 1 ELSE 1]]
            /\ tokens' = tokens
            /\ Answer(q, [Respond(q, 401, "INVALID_CREDENTIALS") EXCEPT !.wrote = TRUE])
       ELSE /\ users' = SuccessfulLoginUpdate(q.uid)
            /\ hist' = [hist EXCEPT ![q.uid] = [fails |-> 0, last |-> @.last, run |-> 0]]
            /\ tokens' = tokens \cup {generateToken(q.uid)}
            /\ Answer(q, [Respond(q, 200, "") EXCEPT
                             !.dataId = q.uid, !.token = generateToken(q.uid),
                             !.after = AttemptsOf(users', q.uid), !.wrote = TRUE])
    /\ UNCHANGED <<nextId, now, raced, watch, bookVars, limVars, connVars>>

(***************************************************************************)
(* GET /me                                                                 *)
(***************************************************************************)
GetMe(tok) ==
    /\ Free
    /\ LET q == [IdleReq EXCEPT !.op = "getMe", !.tok = tok, !.alive = Alive(tok)]
           id == authenticateUser(tok)
       IN  Answer(IdleReq, IF id = 0 THEN Respond(q, 401, "NOT_AUTHORIZED")
                     ELSE [Respond(q, 200, "") EXCEPT !.uid = id,
                                                      !.dataId = users[id]._id])
    /\ UNCHANGED <<users, nextId, now, tokens, hist, raced, watch, bookVars, limVars, connVars>>

(***************************************************************************)
(* PUT /me                                                                 *)
(* The body carries email and username ("" when absent). The password and  *)
(* profile branches write fields no other handler of this model reads and  *)
(* are left out; a body with neither email nor username answers NO_UPDATES.*)
(***************************************************************************)
UpdateAuth(tok, email, username) ==
    /\ Free
    /\ LET q == [IdleReq EXCEPT !.op = "update", !.tok = tok, !.alive = Alive(tok),
                                !.email = email, !.username = username]
           id == authenticateUser(tok)
       IN  Step(IdleReq, IF id = 0 THEN Respond(q, 401, "NOT_AUTHORIZED")
                   ELSE [q EXCEPT !.pc = "email", !.uid = id,
                                  !.uEmail = users[id].email,
                                  !.uUsername = users[id].username])
    /\ UNCHANGED <<users, nextId, now, tokens, hist, raced, watch, bookVars, limVars, connVars>>

EmailUnchecked(email, userId) == {}

\* findOne({email, _id: {$ne: userId}})

EmailInUse(email, userId) ==
    {i \in DOMAIN users : users[i].email = email /\ i # userId}

\* findOne({username, _id: {$ne: userId}})
UsernameInUse(username, userId) ==
    {i \in DOMAIN users : users[i].username = username /\ i # userId}

UpdateEmailCheck(q) ==
    /\ q \in InFlight
    /\ q.op = "update" /\ q.pc = "email"
    /\ IF q.email # "" /\ q.email # q.uEmail
       THEN /\ Step(q, IF EmailInUse(q.email, q.uid) # {}
                       THEN Respond(q, 409, "EMAIL_IN_USE")
                       ELSE [q EXCEPT !.pc = "username", !.setEmail = TRUE,
                                      !.checked = TRUE, !.uEmail = ""])
            /\ raced' = RaceSeen(q)
       ELSE /\ Step(q, [q EXCEPT !.pc = "username", !.uEmail = ""])
            /\ raced' = raced
    /\ UNCHANGED <<users, nextId, now, tokens, hist, watch, bookVars, limVars, connVars>>

UpdateUsernameCheck(q) ==
    /\ q \in InFlight
    /\ q.op = "update" /\ q.pc = "username"
    /\ IF q.username # "" /\ q.username # q.uUsername
       THEN /\ Step(q, IF UsernameInUse(q.username, q.uid) # {}
                       THEN Respond(q, 409, "USERNAME_IN_USE")
                       ELSE [q EXCEPT !.pc = "write", !.setUsername = TRUE,
                                      !.checked = TRUE, !.uUsername = ""])
            /\ raced' = RaceSeen(q)
       ELSE /\ Step(q, IF ~q.setEmail THEN Respond(q, 400, "NO_UPDATES")
                       ELSE [q EXCEPT !.pc = "write", !.uUsername = ""])
            /\ raced' = raced
    /\ UNCHANGED <<users, nextId, now, tokens, hist, watch, bookVars, limVars, connVars>>

\* updateOne({_id}, {$set: updates}), then findOne({_id}) for the response
UpdateWrite(q) ==
    /\ q \in InFlight
    /\ q.op = "update" /\ q.pc = "write"
    /\ IF q.uid \in DOMAIN users
       THEN /\ users' = [users EXCEPT ![q.uid] =
                  [@ EXCEPT !.email = IF q.setEmail THEN q.email ELSE @,
                            !.username = IF q.setUsername THEN q.username ELSE @,
                            !.regAs = <<>>]]
            /\ Answer(q, [Respond(q, 200, "") EXCEPT !.dataId = q.uid, !.wrote = TRUE])
       ELSE /\ users' = users
            /\ Answer(q, Respond(q, 500, "SERVER_ERROR"))
    /\ UNCHANGED <<nextId, now, tokens, hist, raced, watch, bookVars, limVars, connVars>>

(***************************************************************************)
(* DELETE /me                                                              *)
(***************************************************************************)
DeleteAuth(tok) ==
    /\ Free
    /\ LET q == [IdleReq EXCEPT !.op = "deleteSelf", !.tok = tok, !.alive = Alive(tok)]
           id == authenticateUser(tok)
       IN  Step(IdleReq, IF id = 0 THEN Respond(q, 401, "NOT_AUTHORIZED")
                   ELSE [q EXCEPT !.pc = "deleteOne", !.uid = id])
    /\ UNCHANGED <<users, nextId, now, tokens, hist, raced, watch, bookVars, limVars, connVars>>

\* deleteOne({_id}): deletedCount 0 answers 404
DeleteFinish(q) ==
    /\ q \in InFlight
    /\ q.op = "deleteSelf" /\ q.pc = "deleteOne"
    /\ IF q.uid \in DOMAIN users
       THEN /\ users' = [i \in DOMAIN users \ {q.uid} |-> users[i]]
            /\ Answer(q, [Respond(q, 200, "") EXCEPT !.wrote = TRUE])
       ELSE /\ users' = users
            /\ Answer(q, Respond(q, 404, "USER_NOT_FOUND"))
    /\ UNCHANGED <<nextId, now, tokens, hist, raced, watch, bookVars, limVars, connVars>>

(***************************************************************************)
(* Time                                                                    *)
(***************************************************************************)
Tick ==
    /\ now + TickStep <= MaxTime
    /\ now' = now + TickStep
    /\ UNCHANGED <<users, nextId, tokens, reqs, last, hist, raced, watch, bookVars, limVars, connVars>>

\* The clock passes a token's exp (JWT_EXPIRES_IN after it was signed).
TokenExpires(tok) ==
    /\ tok \in tokens /\ ~tok.expired
    /\ tokens' = (tokens \ {tok}) \cup {[tok EXCEPT !.expired = TRUE]}
    /\ UNCHANGED <<users, nextId, now, reqs, last, hist, raced, watch, bookVars, limVars, connVars>>

(***************************************************************************)
(* Initial state: empty collections, no request                            *)
(***************************************************************************)
InitBookStore ==
    /\ books = {}
    /\ nextBook = 1
    /\ remote = {}

InitLimiter ==
    /\ hits = 0
    /\ sent = 0

\* let database; let connectionPromise; no caller yet
InitConnection ==
    /\ database = <<>>
    /\ connectionPromise = 0
    /\ promises = <<>>
    /\ callers = <<>>
    /\ closes = 0
    /\ closing = FALSE

Init(watched) ==
    /\ users = <<>>
    /\ nextId = 1
    /\ now = 0
    /\ tokens = {}
    /\ reqs = EmptyBag
    /\ last = IdleReq
    /\ watch = watched
    /\ hist = <<>>
    /\ raced = FALSE
    /\ InitBookStore /\ InitLimiter /\ InitConnection

(***************************************************************************)
(* SpecLogin: one identity registers and logs in while the clock runs      *)
(***************************************************************************)
GoodPassword == "Abcdef12"
Passwords == {GoodPassword, "Wrong123"}

NextLogin ==
    \/ RegisterCheck("alice123", "a@x.io", GoodPassword)
    \/ \E q \in InFlight : RegisterInsert(q)
    \/ \E p \in Passwords : LoginFind("a@x.io", p)
    \/ \E q \in InFlight : LoginFinish(q)
    \/ Tick

SpecLogin == Init({"register", "login"}) /\ [][NextLogin]_vars

(***************************************************************************)
(* SpecSession: one identity registers, logs in, reads and deletes itself, *)
(* and registers again; tokens expire                                      *)
(***************************************************************************)
\* What a client may put in the Authorization header.
Presentable == tokens \cup {NoToken} \cup {Forged(i) : i \in DOMAIN users}

NextSession ==
    \/ RegisterCheck("alice123", "a@x.io", GoodPassword)
    \/ \E q \in InFlight : RegisterInsert(q)
    \/ LoginFind("a@x.io", GoodPassword)
    \/ \E q \in InFlight : LoginFinish(q)
    \/ \E tok \in Presentable : GetMe(tok)
    \/ \E tok \in Presentable : DeleteAuth(tok)
    \/ \E q \in InFlight : DeleteFinish(q)
    \/ \E tok \in tokens : TokenExpires(tok)

SpecSession == Init({"register", "login", "getMe", "deleteSelf"}) /\ [][NextSession]_vars

(***************************************************************************)
(* SpecUsers: two identities register, change email and username, delete   *)
(***************************************************************************)
\* Register bodies: the same username under two emails, the same email in two
\* spellings under two usernames, and (the last two) unrelated identities.
RegisterBodies ==
    {<<"alice123", "a@x.io">>, <<"alice123", "b@x.io">>, <<"bob45678", "A@x.io">>}

\* PUT /me bodies <<email, username>>, "" for a field the body does not carry.
UpdateBodies ==
    {<<"b@x.io", "">>, <<"", "bob45678">>, <<"a@x.io", "alice123">>, <<"", "">>}

\* Tokens of the users registered so far, as register returned them.
Issued == {generateToken(i) : i \in 1..(nextId - 1)}

\* Two clients, each waiting for its response before it sends again.
Clients == {"web", "mobile"}

ClientFree == BagCardinality(reqs) < Cardinality(Clients)

NextUsers ==
    \/ ClientFree /\ \E b \in RegisterBodies : RegisterCheck(b[1], b[2], GoodPassword)
    \/ ClientFree /\ RegisterInvalid("ab", "a@x.io", GoodPassword)
    \/ \E q \in InFlight : RegisterInsert(q)
    \/ ClientFree /\ \E tok \in Issued, b \in UpdateBodies : UpdateAuth(tok, b[1], b[2])
    \/ \E q \in InFlight : UpdateEmailCheck(q)
    \/ \E q \in InFlight : UpdateUsernameCheck(q)
    \/ \E q \in InFlight : UpdateWrite(q)
    \/ ClientFree /\ \E tok \in Issued : DeleteAuth(tok)
    \/ \E q \in InFlight : DeleteFinish(q)

SpecUsers == Init({"register"}) /\ [][NextUsers]_vars

(***************************************************************************)
(* Listings (bookRoutes.js)                                                *)
(***************************************************************************)
MaxBooks == 2
MaxLikes == 2

\* Stored values carry their BSON type: $set stores whatever JSON the body
\* holds, and $inc needs a number.
ObjectIdOf(n) == [t |-> "ObjectId", v |-> n]

Num(n) == [t |-> "number", v |-> n]

Str == [t |-> "string", v |-> 0]

Null == [t |-> "null", v |-> 0]

\* sanitizedData.image = { url, public_id }
Image(public_id) == [t |-> "image", v |-> public_id]

IdleBook ==
    [op |-> "idle", pc |-> "idle", caller |-> 0, bookId |-> 0,
     status |-> 0, code |-> "",
     existed |-> FALSE, owned |-> FALSE, touched |-> FALSE,
     attempted |-> FALSE, failed |-> FALSE, present |-> FALSE, removed |-> FALSE,
     before |-> Null, after |-> Null]

\* The handler in state p sends its response q; the response and the history
\* flags of a watched request are kept.
Reply(p, q) ==
    /\ reqs' = (IF p.pc = "idle" THEN reqs ELSE reqs (-) One(p))
    /\ last' = IF q.op \in watch
               THEN [q EXCEPT !.bookId = 0, !.caller = IF @ = 0 THEN 0 ELSE 1]
               ELSE last

\* The handler in state p goes on to its next await, in state q.
Await(p, q) ==
    /\ reqs' = (IF p.pc = "idle" THEN reqs ELSE reqs (-) One(p)) (+) One(q)
    /\ last' = last

\* new ObjectId(bookId) throws on a string that is no ObjectId: bookId 0.
ObjectIdIsValid(bookId) == bookId # 0

\* { _id: bookIdObj }
FindById(bookId) == {b \in books : b._id = bookId}

FindIgnoringOwner(bookId, userId) == {b \in books : b._id = bookId}

\* { _id: bookIdObj, userId: userId }
FindOwned(bookId, userId) ==
    {b \in books : b._id = bookId /\ b.userId = ObjectIdOf(userId)}

\* History: the listing exists / stores the caller's id as its owner.
Exists(bookId) == \E b \in books : b._id = bookId

OwnedBy(bookId, userId) ==
    \E b \in books : b._id = bookId /\ b.userId.t = "ObjectId" /\ b.userId.v = userId

\* POST /create up to the upload: authenticateUser, validateBook.
CreateUpload(tok, bodyValid) ==
    /\ Free
    /\ LET id == authenticateUser(tok)
           q  == [IdleBook EXCEPT !.op = "createBook", !.caller = id]
       IN  IF id = 0 THEN Reply(IdleBook, Respond(q, 401, "NOT_AUTHORIZED"))
           ELSE IF ~bodyValid THEN Reply(IdleBook, Respond(q, 400, "VALIDATION_ERROR"))
           ELSE Await(IdleBook, [q EXCEPT !.pc = "upload"])
    /\ UNCHANGED <<userVars, watch, bookVars, limVars, connVars>>

\* The ObjectId insertOne gives the new listing; the image host names the
\* uploaded image after it.
InsertedBookId == nextBook

NewBook(id, userId, public_id) ==
    [_id |-> id, userId |-> ObjectIdOf(userId), likes |-> Num(0),
     image |-> Image(public_id)]

\* uploadToCloudinary settles, then insertOne.
CreateInsert(q, uploaded) ==
    /\ q \in InFlight
    /\ q.op = "createBook" /\ q.pc = "upload"
    /\ IF ~uploaded
       THEN /\ Reply(q, Respond(q, 500, "SERVER_ERROR"))
            /\ UNCHANGED bookVars
       ELSE /\ nextBook <= MaxBooks
            /\ LET id == InsertedBookId IN
                 /\ remote' = remote \cup {id}
                 /\ books' = books \cup {NewBook(id, q.caller, id)}
                 /\ nextBook' = nextBook + 1
                 /\ Reply(q, [Respond(q, 201, "") EXCEPT !.bookId = id, !.touched = TRUE])
    /\ UNCHANGED <<userVars, watch, limVars, connVars>>

\* { $set: updateData }: every field of the body is written as it came.
ApplyPatch(b, patch) ==
    CASE patch.field = "likes"  -> [b EXCEPT !.likes = patch.value]
      [] patch.field = "userId" -> [b EXCEPT !.userId = patch.value]
      [] patch.field = "image"  -> [b EXCEPT !.image = patch.value]
      [] OTHER -> b

\* PUT /my-books/:bookId: one findOneAndUpdate.
UpdateBook(tok, bookId, patch) ==
    /\ Free
    /\ LET id    == authenticateUser(tok)
           q     == [IdleBook EXCEPT !.op = "updateBook", !.caller = id,
                                     !.bookId = bookId,
                                     !.existed = Exists(bookId),
                                     !.owned = OwnedBy(bookId, id)]
           found == FindOwned(bookId, id)
       IN  IF id = 0
           THEN /\ Reply(IdleBook, Respond(q, 401, "NOT_AUTHORIZED"))
                /\ books' = books
           ELSE IF ~ObjectIdIsValid(bookId)
           THEN /\ Reply(IdleBook, Respond(q, 500, "SERVER_ERROR"))
                /\ books' = books
           ELSE IF found = {}
           THEN /\ Reply(IdleBook, Respond(q, 404, "NOT_FOUND"))
                /\ books' = books
           ELSE /\ books' = (books \ found) \cup {ApplyPatch(b, patch) : b \in found}
                /\ Reply(IdleBook, [Respond(q, 200, "") EXCEPT !.touched = books' # books])
    /\ UNCHANGED <<userVars, watch, nextBook, remote, limVars, connVars>>

\* DELETE /my-books/:bookId up to cloudinary.uploader.destroy: the findOne.
DeleteFind(tok, bookId) ==
    /\ Free
    /\ LET id    == authenticateUser(tok)
           q     == [IdleBook EXCEPT !.op = "deleteBook", !.caller = id,
                                     !.bookId = bookId,
                                     !.existed = Exists(bookId),
                                     !.owned = OwnedBy(bookId, id)]
           found == FindOwned(bookId, id)
       IN  IF id = 0 THEN Reply(IdleBook, Respond(q, 401, "NOT_AUTHORIZED"))
           ELSE IF ~ObjectIdIsValid(bookId)
           THEN Reply(IdleBook, Respond(q, 500, "SERVER_ERROR"))
           ELSE IF found = {} THEN Reply(IdleBook, Respond(q, 404, "NOT_FOUND"))
           ELSE LET book == CHOOSE b \in found : TRUE IN
                IF book.image.t = "image"
                THEN Await(IdleBook, [q EXCEPT !.pc = "destroy", !.attempted = TRUE,
                                               !.before = book.image])
                ELSE Await(IdleBook, [q EXCEPT !.pc = "deleteOne"])
    /\ UNCHANGED <<userVars, watch, bookVars, limVars, connVars>>

\* cloudinary.uploader.destroy settles; a rejection is logged and dropped.
DeleteDestroyed(q, destroyed) ==
    /\ q \in InFlight
    /\ q.op = "deleteBook" /\ q.pc = "destroy"
    /\ remote' = IF destroyed THEN remote \ {q.before.v} ELSE remote
    /\ Await(q, [q EXCEPT !.pc = "deleteOne", !.failed = ~destroyed,
                          !.touched = remote' # remote])
    /\ UNCHANGED <<userVars, watch, books, nextBook, limVars, connVars>>

\* deleteOne and the response.
DeleteRemove(q) ==
    /\ q \in InFlight
    /\ q.op = "deleteBook" /\ q.pc = "deleteOne"
    /\ LET found == FindOwned(q.bookId, q.caller)
           r     == [q EXCEPT !.present = OwnedBy(q.bookId, q.caller)]
       IN  /\ books' = books \ found
           /\ IF found = {}
              THEN Reply(q, Respond(r, 404, "NOT_FOUND"))
              ELSE Reply(q, [Respond(r, 200, "") EXCEPT !.removed = TRUE,
                                                        !.touched = TRUE])
    /\ UNCHANGED <<userVars, watch, nextBook, remote, limVars, connVars>>

\* { $inc: { likes: 1 } } fails on a field that holds no number.
IncLikes(b) == [b EXCEPT !.likes = Num(b.likes.v + 1)]

\* PUT /like/:bookId: one findOneAndUpdate, no authenticateUser.
LikeBook(bookId) ==
    /\ Free
    /\ LET q     == [IdleBook EXCEPT !.op = "like", !.bookId = bookId,
                                     !.existed = Exists(bookId)]
           found == FindById(bookId)
       IN  IF ~ObjectIdIsValid(bookId)
           THEN /\ Reply(IdleBook, Respond(q, 500, "SERVER_ERROR"))
                /\ books' = books
           ELSE IF found = {}
           THEN /\ Reply(IdleBook, Respond(q, 404, "NOT_FOUND"))
                /\ books' = books
           ELSE LET book == CHOOSE b \in found : TRUE IN
                IF book.likes.t # "number"
                THEN /\ books' = books
                     /\ Reply(IdleBook, [Respond(q, 500, "SERVER_ERROR") EXCEPT
                                             !.before = book.likes, !.after = book.likes])
                ELSE /\ book.likes.v < MaxLikes
                     /\ books' = (books \ found) \cup {IncLikes(book)}
                     /\ Reply(IdleBook, [Respond(q, 200, "") EXCEPT
                                             !.before = book.likes,
                                             !.after = IncLikes(book).likes,
                                             !.touched = TRUE])
    /\ UNCHANGED <<userVars, watch, nextBook, remote, limVars, connVars>>

(***************************************************************************)
(* SpecBooks: two registered users create, edit and delete listings        *)
(***************************************************************************)
BookUsers ==
    (1 :> NewUser(1, "alice123", "a@x.io", GoodPassword, "a@x.io"))
        @@ (2 :> NewUser(2, "bob45678", "b@x.io", GoodPassword, "b@x.io"))

\* :bookId as clients send it: 0 is no ObjectId, MaxBooks + 1 is never stored.
BookIds == 0..(MaxBooks + 1)

\* Bodies of PUT /my-books/:bookId: an edit of the title, and one that
\* replaces the image by null.
Patches ==
    {[field |-> "title", value |-> Str],
     [field |-> "image", value |-> Null]}

\* Bodies that write the like counter.
LikePatches ==
    {[field |-> "likes", value |-> Num(-1)],
     [field |-> "likes", value |-> Str]}

InitBooks ==
    /\ users = BookUsers
    /\ nextId = 3
    /\ now = 0
    /\ tokens = {generateToken(i) : i \in DOMAIN BookUsers}
    /\ reqs = EmptyBag
    /\ last = IdleBook
    /\ watch = {"updateBook", "deleteBook", "like"}
    /\ hist = <<>>
    /\ raced = FALSE
    /\ InitBookStore /\ InitLimiter /\ InitConnection

Bearers == tokens \cup {NoToken}

NextBooks ==
    \/ ClientFree /\ \E tok \in Bearers, bodyValid \in BOOLEAN : CreateUpload(tok, bodyValid)
    \/ \E q \in InFlight, uploaded \in BOOLEAN : CreateInsert(q, uploaded)
    \/ ClientFree /\ \E tok \in Bearers, bookId \in BookIds, patch \in Patches :
          UpdateBook(tok, bookId, patch)
    \/ ClientFree /\ \E tok \in Bearers, bookId \in BookIds : DeleteFind(tok, bookId)
    \/ \E q \in InFlight, destroyed \in BOOLEAN : DeleteDestroyed(q, destroyed)
    \/ \E q \in InFlight : DeleteRemove(q)

SpecBooks == InitBooks /\ [][NextBooks]_vars

(***************************************************************************)
(* SpecLikes: listings are created, liked by anyone, and their like        *)
(* counter is written by their owners' edits                               *)
(***************************************************************************)
NextLikes ==
    \/ ClientFree /\ \E tok \in Bearers : CreateUpload(tok, TRUE)
    \/ \E q \in InFlight : CreateInsert(q, TRUE)
    \/ ClientFree /\ \E tok \in Bearers, bookId \in BookIds, patch \in LikePatches :
          UpdateBook(tok, bookId, patch)
    \/ ClientFree /\ \E bookId \in BookIds : LikeBook(bookId)

SpecLikes == InitBooks /\ [][NextLikes]_vars

(***************************************************************************)
(* authLimiter (express-rate-limit) ahead of the account routes            *)
(***************************************************************************)
MaxSent == 101

\* rateLimit({ max: 100 })
max == 100

\* userRoutes.use('/login', authLimiter); userRoutes.use('/', authLimiter):
\* the mounts a request path runs through, in order.
Mounts(path) == IF path = "/login" THEN <<"/login", "/">> ELSE <<"/">>

\* One pass through the middleware: the store counts the hit, and the
\* handler answers 429 once the count is above max.
authLimiter(h) == [hits |-> h + 1, passed |-> h + 1 <= max]

\* The request runs through its mounts until one of them answers.
RECURSIVE ThroughMounts(_, _)
ThroughMounts(mounts, h) ==
    IF mounts = <<>> THEN [hits |-> h, passed |-> TRUE]
    ELSE LET r == authLimiter(h) IN
         IF r.passed THEN ThroughMounts(Tail(mounts), r.hits) ELSE r

IdleLimited == [op |-> "idle", path |-> "", n |-> 0, passed |-> FALSE, status |-> 0, code |-> ""]

\* A request of the client to an account endpoint: the limiter, then the
\* route's handler (not followed here) when every mount passed it.
LimitedRequest(path) ==
    /\ sent < MaxSent
    /\ LET r == ThroughMounts(Mounts(path), hits) IN
         /\ hits' = r.hits
         /\ sent' = sent + 1
         /\ last' = [op |-> "request", path |-> path, n |-> sent + 1,
                     passed |-> r.passed,
                     status |-> IF r.passed THEN 0 ELSE 429,
                     code |-> IF r.passed THEN "" ELSE "RATE_LIMITED"]
    /\ UNCHANGED <<userVars, reqs, watch, bookVars, connVars>>

\* windowMs has passed since the window opened: the store forgets the client.
WindowReset ==
    /\ sent > 0
    /\ hits' = 0
    /\ sent' = 0
    /\ UNCHANGED <<userVars, reqs, last, watch, bookVars, connVars>>

(***************************************************************************)
(* SpecLimiter: one client sends requests to /login and to the other       *)
(* account routes                                                          *)
(***************************************************************************)
InitLimited ==
    /\ users = <<>>
    /\ nextId = 1
    /\ now = 0
    /\ tokens = {}
    /\ reqs = EmptyBag
    /\ last = IdleLimited
    /\ watch = {}
    /\ hist = <<>>
    /\ raced = FALSE
    /\ InitBookStore /\ InitLimiter /\ InitConnection

Paths == {"/login", "/me"}

NextLimiter ==
    \/ \E path \in Paths : LimitedRequest(path)
    \/ WindowReset

SpecLimiter == InitLimited /\ [][NextLimiter]_vars

(***************************************************************************)
(* The persistence gateway (connect.js)                                    *)
(***************************************************************************)
MaxCallers == 2
MaxConnects == 2
MaxCloses == 2

Callers == 1..MaxCallers

IdleCaller == [pc |-> "idle", promise |-> 0, epoch |-> 0, early |-> FALSE, got |-> <<>>]

\* What awaiting a promise gives: the Db handle attempt p created, or its error.
Outcome(p) ==
    IF promises[p].state = "resolved" THEN <<"db", p>> ELSE <<"error">>

NeverMemoized == FALSE

\* if (!connectionPromise) is not taken
Memoized == connectionPromise # 0

\* connectToServer up to its return: a new promise, whose body has called
\* client.connect(), unless one is memoized; the caller awaits what it got.
connectToServer(c) ==
    /\ callers[c].pc # "awaiting"
    /\ IF Memoized
       THEN UNCHANGED <<promises, connectionPromise>>
       ELSE /\ Len(promises) < MaxConnects
            /\ promises' = Append(promises, [state |-> "pending", epoch |-> closes,
                                             settled |-> closes])
            /\ connectionPromise' = Len(promises) + 1
    /\ callers' = [callers EXCEPT ![c] =
                      [pc |-> "awaiting", promise |-> connectionPromise',
                       epoch |-> closes,
                       early |-> promises'[connectionPromise'].state = "pending",
                       got |-> <<>>]]
    /\ UNCHANGED <<userVars, reqs, last, watch, bookVars, limVars, database, closes, closing>>

\* client.connect() of attempt p settles: database = client.db(...) and the
\* promise resolves with it, or the promise rejects.
ConnectSettles(p, connected) ==
    /\ p \in DOMAIN promises
    /\ promises[p].state = "pending"
    /\ promises' = [promises EXCEPT ![p].state =
                       IF connected THEN "resolved" ELSE "rejected",
                                    ![p].settled = closes]
    /\ database' = IF connected THEN <<p>> ELSE database
    /\ UNCHANGED <<userVars, reqs, last, watch, bookVars, limVars,
                   connectionPromise, callers, closes, closing>>

\* A caller's await of the promise it was returned completes.
Receive(c) ==
    /\ callers[c].pc = "awaiting"
    /\ promises[callers[c].promise].state # "pending"
    /\ callers' = [callers EXCEPT ![c].pc = "returned",
                                  ![c].got = Outcome(callers[c].promise)]
    /\ UNCHANGED <<userVars, reqs, last, watch, bookVars, limVars,
                   database, connectionPromise, promises, closes, closing>>

\* closeConnection up to await client.close()
CloseStart ==
    /\ ~closing
    /\ closes < MaxCloses
    /\ closing' = TRUE
    /\ UNCHANGED <<userVars, reqs, last, watch, bookVars, limVars,
                   database, connectionPromise, promises, callers, closes>>

\* client.close() settles either way; finally: both variables are reset.
CloseFinish ==
    /\ closing
    /\ database' = <<>>
    /\ connectionPromise' = 0
    /\ closes' = closes + 1
    /\ closing' = FALSE
    /\ UNCHANGED <<userVars, reqs, last, watch, bookVars, limVars, promises, callers>>

IdleGet == [op |-> "idle", threw |-> FALSE, begun |-> FALSE, fresh |-> FALSE]

\* History: an attempt started by a connectToServer call made since the last
\* completed closeConnection (or with none completed) has succeeded.
SucceededSinceClose == \E p \in DOMAIN promises :
    promises[p].state = "resolved" /\ promises[p].epoch = closes

\* History: some attempt has succeeded with no closeConnection completed
\* after its success.
SucceededUnclosed == \E p \in DOMAIN promises :
    promises[p].state = "resolved" /\ promises[p].settled = closes

\* getDb: throws 'Database not initialized' on a falsy database, returns it
\* otherwise.
getDb ==
    /\ last' = [op |-> "getDb", threw |-> database = <<>>,
                begun |-> SucceededSinceClose, fresh |-> SucceededUnclosed]
    /\ UNCHANGED <<userVars, reqs, watch, bookVars, limVars, connVars>>

(***************************************************************************)
(* SpecConnect: callers of connectToServer and of getDb, and               *)
(* closeConnection                                                         *)
(***************************************************************************)
InitConnect ==
    /\ users = <<>>
    /\ nextId = 1
    /\ now = 0
    /\ tokens = {}
    /\ reqs = EmptyBag
    /\ last = IdleGet
    /\ watch = {}
    /\ hist = <<>>
    /\ raced = FALSE
    /\ InitBookStore /\ InitLimiter
    /\ database = <<>>
    /\ connectionPromise = 0
    /\ promises = <<>>
    /\ callers = [c \in Callers |-> IdleCaller]
    /\ closes = 0
    /\ closing = FALSE

NextConnect ==
    \/ \E c \in Callers : connectToServer(c)
    \/ \E p \in DOMAIN promises, connected \in BOOLEAN : ConnectSettles(p, connected)
    \/ \E c \in Callers : Receive(c)
    \/ CloseStart
    \/ CloseFinish
    \/ getDb

SpecConnect == InitConnect /\ [][NextConnect]_vars

(***************************************************************************)
(* C1  Login lockout.  A login that finds the account after five or more   *)
(* consecutive wrong-password answers, less than 15 minutes after the last *)
(* of them, is answered 429 ACCOUNT_LOCKED whatever its password and is    *)
(* never passed on to the password comparison; one that comes 15 minutes   *)
(* or more after the last failure is evaluated, and with the correct       *)
(* password it is answered 200 with a token and leaves the counter at 0.   *)
(***************************************************************************)
LoginLockout ==
    /\ last.op = "login" /\ last.seen = "locked"
          => last.status = 429 /\ last.code = "ACCOUNT_LOCKED" /\ ~last.wrote
    /\ \A q \in InFlight : q.op = "login" => q.seen # "locked"
    /\ last.op = "login" /\ last.seen = "expired"
          => /\ last.status # 429
             /\ last.password = GoodPassword
                   => /\ last.status = 200
                      /\ last.token = generateToken(last.dataId)
                      /\ last.after = <<0>>

\* A login answered 200 after a lockout that has run out.
LoginLockoutWitness ==
    /\ last.op = "login" /\ last.seen = "expired"
    /\ last.password = GoodPassword /\ last.status = 200

\* A login with the correct password answered 429 while the account is locked.
LoginLockedWitness ==
    /\ last.op = "login" /\ last.seen = "locked"
    /\ last.password = GoodPassword /\ last.status = 429

Unique(us) ==
    \A i, j \in DOMAIN us :
        i # j /\ us[i].isActive /\ us[j].isActive
           => us[i].username # us[j].username /\ us[i].email # us[j].email

UniqueAmongActive == Unique(users)

(***************************************************************************)
(* C3 as amended: the same, for every state reached without a register or  *)
(* updateProfile request running a uniqueness check while another such     *)
(* request was between its own uniqueness check and its write.             *)
(***************************************************************************)
UniqueUnlessRaced == ~raced => Unique(users)

\* Two users side by side, one of them after a profile update, and no race.
UniqueUnlessRacedWitness ==
    /\ ~raced
    /\ Cardinality(DOMAIN users) >= 2
    /\ \E i \in DOMAIN users : users[i].regAs = <<>>

(***************************************************************************)
(* C4  Session token.  As claimed: a token issued by register or login for *)
(* U and presented to GET /me while U's record exists and is active is     *)
(* answered 200 with U's id.                                               *)
(***************************************************************************)
IssuedTokenAuthenticates ==
    last.op = "getMe" /\ last.tok.sig = "ok" /\ last.alive
       => last.status = 200 /\ last.dataId = last.tok.id

(***************************************************************************)
(* C4 as amended: an issued token that has not expired, presented to       *)
(* GET /me while U's record exists and is active, is answered 200 with U's *)
(* id, never another id; with no token, a token of another signature, an   *)
(* expired token, or after U deleted the account, GET /me and DELETE /me   *)
(* answer 401 NOT_AUTHORIZED and no handler runs.                          *)
(***************************************************************************)
Live(tok) == tok.sig = "ok" /\ ~tok.expired

SessionToken ==
    /\ last.op = "getMe" /\ Live(last.tok) /\ last.alive
          => last.status = 200 /\ last.dataId = last.tok.id
    /\ last.op = "getMe" /\ last.status = 200
          => Live(last.tok) /\ last.alive /\ last.dataId = last.tok.id
    /\ last.op \in {"getMe", "deleteSelf"} /\ last.code = "NOT_AUTHORIZED"
          => last.status = 401 /\ ~(Live(last.tok) /\ last.alive)
    /\ last.op = "getMe" /\ ~(Live(last.tok) /\ last.alive)
          => last.status = 401 /\ last.code = "NOT_AUTHORIZED"
    /\ \A q \in InFlight :
          q.op = "deleteSelf" => Live(q.tok) /\ q.alive /\ q.uid = q.tok.id

\* The token of a deleted account, still unexpired, answered 401 by GET /me.
SessionTokenWitness ==
    /\ last.op = "getMe" /\ Live(last.tok) /\ ~last.alive
    /\ last.status = 401
    /\ last.tok \in tokens

\* A fresh token answered 200 with its user's id.
SessionTokenAcceptedWitness ==
    last.op = "getMe" /\ last.status = 200 /\ last.dataId = last.tok.id

(***************************************************************************)
(* C5  Ownership opacity.  An update or delete of a listing (a well-formed *)
(* id) by an authenticated user whose id the listing does not store as its *)
(* owner is answered 404 NOT_FOUND, whether the listing exists or not,     *)
(* changes neither the books collection nor the image host, and starts no  *)
(* remote deletion: only the owner's delete gets past its findOne.         *)
(***************************************************************************)
OwnershipOpacity ==
    /\ (/\ last.op \in {"updateBook", "deleteBook"}
        /\ last.caller # 0 /\ last.code # "SERVER_ERROR"
        /\ ~last.owned)
       => (/\ last.status = 404 /\ last.code = "NOT_FOUND"
           /\ ~last.touched /\ ~last.attempted /\ ~last.removed)
    /\ \A q \in InFlight : q.op = "deleteBook" => q.owned /\ q.existed

\* A user who is not the owner has been refused on a listing that exists.
OwnershipOpacityWitness ==
    /\ last.op \in {"updateBook", "deleteBook"}
    /\ last.caller # 0 /\ last.existed /\ ~last.owned
    /\ last.status = 404

\* The same for a delete, while the listing's image is still on the host.
OwnershipOpacityDeleteWitness ==
    /\ last.op = "deleteBook"
    /\ last.caller # 0 /\ last.existed /\ ~last.owned
    /\ last.status = 404 /\ remote # {}

(***************************************************************************)
(* C6  No lost likes.  Every like on an existing listing is answered 200   *)
(* and leaves the counter one above the number it found (so N likes, in    *)
(* any order, add N); a like on an id that is not stored is answered 404   *)
(* and changes nothing.                                                    *)
(***************************************************************************)
NoLostLikes ==
    (last.op = "like" /\ (last.existed \/ last.code # "SERVER_ERROR"))
       => IF last.existed
          THEN /\ last.status = 200
               /\ last.before.t = "number"
               /\ last.after = Num(last.before.v + 1)
          ELSE last.status = 404 /\ ~last.touched

\* What does hold: a like that finds a number adds exactly one to it.
LikesCountedOnNumbers ==
    (last.op = "like" /\ last.existed /\ last.before.t = "number")
       => last.status = 200 /\ last.after = Num(last.before.v + 1)

(***************************************************************************)
(* C7  Like counter domain.  Every stored listing's like counter is a      *)
(* non-negative integer.                                                   *)
(***************************************************************************)
LikeCounterDomain ==
    \A b \in books : b.likes.t = "number" /\ b.likes.v >= 0

(***************************************************************************)
(* C9  Deletion is not blocked by the image host.  An owner's delete whose *)
(* remote deletion failed still removes the record it owns and is answered *)
(* 200; no record is removed before the remote deletion was attempted, and *)
(* no remote deletion is attempted for a caller who does not own the       *)
(* listing.                                                                *)
(***************************************************************************)
DeleteNotBlocked ==
    /\ (last.op = "deleteBook" /\ last.failed /\ last.present)
          => last.status = 200 /\ last.removed
    /\ (last.op = "deleteBook" /\ last.removed) => last.attempted
    /\ \A q \in InFlight : (q.op = "deleteBook" /\ q.attempted) => q.owned

\* What does hold: the same, for listings that still store an image handle
\* when the delete finds them.
DeleteNotBlockedWithHandle ==
    /\ (last.op = "deleteBook" /\ last.failed /\ last.present)
          => last.status = 200 /\ last.removed
    /\ (last.op = "deleteBook" /\ last.removed /\ last.before.t = "image")
          => last.attempted
    /\ \A q \in InFlight : (q.op = "deleteBook" /\ q.attempted) => q.owned

\* A delete went through although the image host refused the deletion.
DeleteNotBlockedWitness ==
    last.op = "deleteBook" /\ last.failed /\ last.removed /\ last.status = 200

(***************************************************************************)
(* C8  Single-flight connection.  Between two completed closeConnection    *)
(* calls (and before the first) at most one client.connect() is started;   *)
(* all callers of connectToServer in that span are returned the promise of *)
(* that attempt, and each receives its outcome: the one database handle it *)
(* created, or its error.                                                  *)
(***************************************************************************)
SingleFlight ==
    /\ \A p, r \in DOMAIN promises : promises[p].epoch = promises[r].epoch => p = r
    /\ \A c \in Callers : callers[c].pc # "idle" =>
          /\ callers[c].promise \in DOMAIN promises
          /\ promises[callers[c].promise].epoch = callers[c].epoch
    /\ \A c \in Callers : callers[c].pc = "returned" =>
          /\ promises[callers[c].promise].state # "pending"
          /\ callers[c].got = Outcome(callers[c].promise)
    /\ \A c, d \in Callers :
          (/\ callers[c].pc = "returned" /\ callers[d].pc = "returned"
           /\ callers[c].epoch = callers[d].epoch) => callers[c].got = callers[d].got

\* Two callers that both called before the attempt had finished have both
\* received the handle of the one attempt there has been.
SingleFlightWitness ==
    /\ Len(promises) = 1
    /\ \A c \in Callers :
          /\ callers[c].pc = "returned" /\ callers[c].early
          /\ callers[c].got = <<"db", 1>>

\* A caller that called after the attempt had succeeded got the same handle.
SingleFlightLateWitness ==
    /\ Len(promises) = 1
    /\ \E c, d \in Callers :
          /\ callers[c].pc = "returned" /\ callers[c].early
          /\ callers[d].pc = "returned" /\ ~callers[d].early
          /\ callers[d].got = <<"db", 1>> /\ callers[c].got = callers[d].got

(***************************************************************************)
(* C10  Account rate limit.  The client's n-th request of a window is      *)
(* passed to its handler exactly when n is at most 100, whatever account   *)
(* endpoint it addresses: every request counts once.                       *)
(***************************************************************************)
EachRequestCountsOnce ==
    last.op = "request" => (last.passed <=> last.n <= max)

\* What does hold: requests are passed exactly while the hit count, which
\* a login raises at both mounts, stays within max.
HitsWithinMax ==
    /\ sent <= hits /\ hits <= 2 * sent
    /\ last.op = "request" => (last.passed => hits <= max)

(***************************************************************************)
(* C11  Lockout under concurrency.  As claimed: a run of wrong-password    *)
(* answers on one account, each less than 15 minutes after the one before  *)
(* and with no successful login in between, never grows beyond five, and   *)
(* a login answered 429 ACCOUNT_LOCKED has had no password compared.       *)
(***************************************************************************)
LockoutUnderConcurrency ==
    /\ \A id \in DOMAIN hist : hist[id].run <= MAX_LOGIN_ATTEMPTS
    /\ (last.op = "login" /\ last.code = "ACCOUNT_LOCKED") => ~last.wrote

\* What does hold: the run exceeds five by at most the logins that were in
\* flight with it, each of which read the counter before the others wrote.
LockoutOvershoot ==
    /\ \A id \in DOMAIN hist : hist[id].run <= MAX_LOGIN_ATTEMPTS + MaxInFlight - 1
    /\ (last.op = "login" /\ last.code = "ACCOUNT_LOCKED") => ~last.wrote

(***************************************************************************)
(* C12  Database handle lifecycle.  As claimed: getDb returns a handle     *)
(* only when an attempt has succeeded with no closeConnection completed    *)
(* since; and it throws as long as no connectToServer call made after the  *)
(* last completed closeConnection (any call, when none has completed) has  *)
(* succeeded, an attempt that was in flight during the close included.     *)
(***************************************************************************)
HandleLifecycle ==
    last.op = "getDb" =>
        /\ ~last.threw => last.fresh
        /\ ~last.begun => last.threw

\* What does hold: getDb returns a handle exactly when some attempt has
\* succeeded with no closeConnection completed after its success, whenever
\* that attempt was started.
HandleWhenUnclosed ==
    last.op = "getDb" => (~last.threw <=> last.fresh)
====
